---- MODULE Spec2Model ----
(***************************************************************************)
(* uTP flow tracer (utptrace.py): flow table, per-flow connection state    *)
(* machine and in-order segment reassembly of MyUtpTracer.                  *)
(*                                                                         *)
(* One step of the model is one call of UtpTracer.trace on a parsed uTP    *)
(* packet.  The callbacks new_flow / new_segment / flow_closed are kept as *)
(* the sequence `events`; the messages the call hands to the logger are    *)
(* kept in `log`, and the dispatch key (s, t, e) of the call in `disp`.    *)
(***************************************************************************)
EXTENDS Integers, Sequences, FiniteSets, TLC

VARIABLES
    flows,      \* self.flows: tup -> UtpFlow
    events,     \* callbacks invoked so far, in order
    nextId,     \* identity of the next UtpFlow object to be constructed
    base,       \* id -> <<seq0, seq1>> when the flow's first DATA packet was processed
    disp,       \* (s, t, e) computed by the latest trace call
    log,        \* logger messages of the latest trace call
    exc,        \* exception that ended the run, "none" while it runs
    script,     \* the capture a scenario reads (empty outside the scenarios)
    pos         \* packets of script read so far

vars == <<flows, events, nextId, base, disp, log, exc, script, pos>>

----------------------------------------------------------------------------
(* Packet types and connection states                                      *)

ST_DATA == 0
ST_FIN == 1
ST_STATE == 2
ST_RESET == 3
ST_SYN == 4

CS_INIT == 1
CS_HANDSHAKE == 2
CS_SYN_ACKED == 3
CS_CONNECTED == 4
CS_INITIATOR_SENT_FIN == 5
CS_ACCEPTER_SENT_FIN == 6
CS_INITIATOR_FIN_ACKED == 7
CS_ACCEPTER_FIN_ACKED == 8
CS_BOTH_SENT_FIN == 9
CS_BOTH_SENT_FIN_INITIATOR_ACKED == 10
CS_BOTH_SENT_FIN_ACCEPTER_ACKED == 11
CS_PENDING_CLOSE == 12

SerialBits == 16
Modulus == 2 ^ SerialBits
Half == 2 ^ (SerialBits - 1)

----------------------------------------------------------------------------
(* Bounds of the model                                                     *)

MaxSeqSpan == 3     \* sequence numbers on the wire: Modulus-1, 0, 1, ...
MaxPending == 1     \* a packet is read only if no flow then buffers more entries
MaxEvents == 3      \* packets are read only while fewer callbacks were made
MaxFlows == 2       \* UtpFlow objects constructed in one run
MaxLive == 1        \* a SYN opens a flow only while fewer flows are live
MaxK == 3           \* longest run of DATA packets in the reordering scenario

Endpoints == {"A", "B"}
Types == {ST_DATA, ST_FIN, ST_STATE, ST_RESET, ST_SYN}
Seqs == {(Modulus - 1 + i) % Modulus : i \in 0 .. (MaxSeqSpan - 1)}
ConnIds == {Modulus - 1, 0, 1}
Bodies == {"x"}

\* no handler reads the sequence number of a FIN or a RESET: one value stands for all
Packets ==
    {p \in [type : Types, src : Endpoints, dst : Endpoints,
            connid : ConnIds, seq : Seqs, body : Bodies] :
        /\ p.src # p.dst
        /\ (p.type \in {ST_FIN, ST_RESET} => p.seq = 0)}

PacketsByType == [t \in Types |-> {p \in Packets : p.type = t}]

NoKey == <<>>

----------------------------------------------------------------------------
(* SerialNumber(value, 16)                                                 *)

SerialAdd(a, n) == (a + n) % Modulus

SerialLt(a, b) ==
    /\ a # b
    /\ \/ (a < b /\ b - a < Half)
       \/ (a > b /\ a - b > Half)

SerialGt(a, b) == SerialLt(b, a)

----------------------------------------------------------------------------
(* UtpFlow and the tracer's callbacks                                      *)
(*                                                                         *)
(* A tracer value T is the record [flows, events, nextId, base, log, exc]  *)
(* that one trace call reads and returns.                                  *)

UtpFlow(id, initiator, accepter, connid, seq0) ==
    [id |-> id, ini |-> initiator, acc |-> accepter, connid |-> connid,
     seq0 |-> seq0, seq1 |-> 0, state |-> CS_HANDSHAKE, pending |-> <<>>]

TupOf(f) == <<f.ini, f.acc, f.connid>>

Event(ev, f, dir, seq, body) ==
    [ev |-> ev, id |-> f.id, tup |-> TupOf(f), dir |-> dir, seq |-> seq,
     body |-> body, state |-> f.state, npending |-> Len(f.pending)]

Logged(T, msg) == [T EXCEPT !.log = Append(@, msg)]

new_flow(T, f) ==
    Logged([T EXCEPT !.events = Append(@, Event("new_flow", f, 0, 0, ""))],
           "New flow.")

new_segment(T, f, direction, seq, segment) ==
    Logged([T EXCEPT !.events =
                Append(@, Event("new_segment", f, direction, seq, segment))],
           "byte(s) received.")

flow_closed(T, f) ==
    [T EXCEPT !.events = Append(@, Event("flow_closed", f, 0, 0, ""))]

RemoveKey(fl, tup) == [k \in (DOMAIN fl) \ {tup} |-> fl[k]]

\* the flow is reported closed and stays in the table
flush_and_close_KeepsKey(T, f) == Logged(flow_closed(T, f), "Flow closed.")

flush_and_close(T, f) ==
    LET T1 == flow_closed(T, f)
        T2 == IF TupOf(f) \in DOMAIN T1.flows
                THEN [T1 EXCEPT !.flows = RemoveKey(@, TupOf(f))]
                ELSE T1
    IN  Logged(T2, "Flow closed.")

----------------------------------------------------------------------------
(* add_segment                                                             *)
(*                                                                         *)
(* A reassembly value R is [seq0, seq1, out, removed, added_some]: the two *)
(* counters, the new_segment calls made so far (as pending-style entries), *)
(* the (seq, direction) pairs to remove and the loop flag.                 *)

\* the tests of the if / elif that open add_segment
IsInOrder(seq, fseq) == seq = fseq

\* every packet that is not the expected one counts as ahead
IsAhead_Always(seq, fseq) == TRUE

\* the comparison on the raw integers instead of the serial numbers
IsAhead_Raw(seq, fseq) == seq > fseq

IsAhead(seq, fseq) == SerialGt(seq, fseq)

Expected(R, direction) == IF direction = 0 THEN R.seq0 ELSE R.seq1

\* a delivery that leaves the expected sequence number where it was
Deliver_NoAdvance(R, entry) == [R EXCEPT !.out = Append(@, entry)]

Deliver(R, entry) ==
    [R EXCEPT !.out = Append(@, entry),
              !.seq0 = IF entry.dir = 0 THEN SerialAdd(@, 1) ELSE @,
              !.seq1 = IF entry.dir = 0 THEN @ ELSE SerialAdd(@, 1)]

RECURSIVE ScanPending(_, _, _)
ScanPending(R, pending, i) ==
    IF i > Len(pending) THEN R
    ELSE IF pending[i].seq = Expected(R, pending[i].dir)
         THEN ScanPending(
                [Deliver(R, pending[i]) EXCEPT
                    !.added_some = TRUE,
                    !.removed = @ \cup {<<pending[i].seq, pending[i].dir>>}],
                pending, i + 1)
         ELSE ScanPending(R, pending, i + 1)

\* the pending list is not scanned at all
ScanLoop_Skip(R, pending) == R

\* a single pass over the pending list
ScanLoop_OnePass(R, pending) ==
    ScanPending([R EXCEPT !.added_some = FALSE], pending, 1)

RECURSIVE ScanLoop(_, _)
ScanLoop(R, pending) ==
    LET R1 == ScanPending([R EXCEPT !.added_some = FALSE], pending, 1)
    IN  IF R1.added_some THEN ScanLoop(R1, pending) ELSE R1

\* the pending list is emptied after the scan
KeepPending_None(pending, removed) == <<>>

KeepPending(pending, removed) ==
    SelectSeq(pending, LAMBDA e : <<e.seq, e.dir>> \notin removed)

RECURSIVE EmitPending(_, _, _)
EmitPending(T, f, out) ==
    IF out = <<>> THEN T
    ELSE EmitPending(
            Logged(new_segment(T, f, Head(out).dir, Head(out).seq, Head(out).body),
                   "Pending segment added"),
            f, Tail(out))

add_segment(T, tup, direction, payload, seq) ==
    LET f == T.flows[tup]
        fseq == IF direction = 0 THEN f.seq0 ELSE f.seq1
        entry == [body |-> payload, seq |-> seq, dir |-> direction]
        R0 == [seq0 |-> f.seq0, seq1 |-> f.seq1, out |-> <<>>,
               removed |-> {}, added_some |-> TRUE]
        inorder == IsInOrder(seq, fseq)
        ahead == ~inorder /\ IsAhead(seq, fseq)
        R1 == IF inorder THEN Deliver(R0, entry) ELSE R0
        pending1 == IF ahead THEN Append(f.pending, entry) ELSE f.pending
        R2 == ScanLoop(R1, pending1)
        f2 == [f EXCEPT !.seq0 = R2.seq0, !.seq1 = R2.seq1,
                        !.pending = KeepPending(pending1, R2.removed)]
        Tb == IF f.id \in DOMAIN T.base THEN T
              ELSE [T EXCEPT !.base = @ @@ (f.id :> <<f.seq0, f.seq1>>)]
        \* the callbacks see the flow object as it is when they are called;
        \* the events keep the flow's identity and the flow as it was on entry
        T1 == IF inorder
                THEN Logged(new_segment(Tb, f, direction, seq, payload),
                            IF direction = 0
                              THEN "New segment arrived from the initiator."
                              ELSE "New segment arrived from the accepter.")
                ELSE IF ahead
                  THEN Logged(Tb, "Out of order packet. Added to pending list.")
                  ELSE Logged(Tb, "Duplicate packet. Ignored.")
        T2 == EmitPending(T1, f, IF inorder THEN Tail(R2.out) ELSE R2.out)
    IN  [T2 EXCEPT !.flows[tup] = f2]

----------------------------------------------------------------------------
(* The transition handlers registered in state_machine                     *)

FromInitiator(f, p) == <<p.src, p.dst>> = <<f.ini, f.acc>>
FromAccepter(f, p) == <<p.dst, p.src>> = <<f.ini, f.acc>>

SetState(T, tup, st) == [T EXCEPT !.flows[tup].state = st]

\* the flow is inserted without a call of new_flow
action_INIT_SYN_Silent(T, tup, p) ==
    LET flow == UtpFlow(T.nextId, p.src, p.dst, p.connid, SerialAdd(p.seq, 1))
    IN  IF TupOf(flow) \in DOMAIN T.flows
          THEN [T EXCEPT !.exc = "AssertionError"]
          ELSE [T EXCEPT !.flows = @ @@ (TupOf(flow) :> flow), !.nextId = @ + 1]

action_INIT_SYN(T, tup, p) ==
    LET flow == UtpFlow(T.nextId, p.src, p.dst, p.connid, SerialAdd(p.seq, 1))
    IN  IF TupOf(flow) \in DOMAIN T.flows
          THEN [T EXCEPT !.exc = "AssertionError"]
          ELSE new_flow([T EXCEPT !.flows = @ @@ (TupOf(flow) :> flow),
                                  !.nextId = @ + 1], flow)

action_HANDSHAKE_STATE(T, tup, p) ==
    IF FromInitiator(T.flows[tup], p)
      THEN Logged(T, "Expected SYN ACK. Ignored.")
      ELSE Logged([T EXCEPT !.flows[tup].seq1 = p.seq,
                            !.flows[tup].state = CS_SYN_ACKED], "SYN acked.")

\* a SYN on a flow in HANDSHAKE announces the flow again
action_HANDSHAKE_SYN_Announces(T, tup, p) == new_flow(T, T.flows[tup])

action_HANDSHAKE_SYN(T, tup, p) ==
    IF FromInitiator(T.flows[tup], p)
      THEN Logged(T, "Duplicate SYN.")
      ELSE LET T1 == flush_and_close(
                        Logged(T, "Two peers trying simultaneously to initiate a connection."),
                        T.flows[tup])
               flow == UtpFlow(T1.nextId, p.src, p.dst, p.connid, SerialAdd(p.seq, 1))
               others == RemoveKey(T1.flows, TupOf(flow))
           IN  new_flow([T1 EXCEPT !.flows = others @@ (TupOf(flow) :> flow),
                                   !.nextId = @ + 1], flow)

action_SYN_ACKED_FIN(T, tup, p) ==
    IF FromInitiator(T.flows[tup], p)
      THEN Logged(SetState(T, tup, CS_INITIATOR_SENT_FIN),
                  "Initiator sent FIN before the connection was completely established.")
      ELSE IF FromAccepter(T.flows[tup], p)
        THEN Logged(SetState(T, tup, CS_ACCEPTER_SENT_FIN),
                    "Accepter sent FIN before the connection was completely established.")
        ELSE T

action_CONNECTING_DATA(T, tup, p) ==
    IF FromInitiator(T.flows[tup], p)
      THEN SetState(add_segment(T, tup, 0, p.body, p.seq), tup, CS_CONNECTED)
      ELSE IF FromAccepter(T.flows[tup], p)
        THEN SetState(add_segment(T, tup, 1, p.body, p.seq), tup, CS_CONNECTED)
        ELSE Logged(T, "Something bad has happened!")

action_CONNECTED_STATE(T, tup, p) == Logged(T, "ACK.")

action_CONNECTED_RESET(T, tup, p) ==
    flush_and_close(Logged(T, "Connection RESET."), T.flows[tup])

action_CONNECTED_FIN(T, tup, p) ==
    IF FromInitiator(T.flows[tup], p)
      THEN Logged(SetState(T, tup, CS_INITIATOR_SENT_FIN), "Initiator sent FIN.")
      ELSE Logged(SetState(T, tup, CS_ACCEPTER_SENT_FIN), "Accepter sent FIN.")

action_INITIATOR_SENT_FIN_STATE(T, tup, p) ==
    Logged(SetState(T, tup, CS_INITIATOR_FIN_ACKED), "Initiator FIN acked.")

action_ACCEPTER_SENT_FIN_STATE(T, tup, p) ==
    IF FromAccepter(T.flows[tup], p)
      THEN Logged(SetState(T, tup, CS_ACCEPTER_FIN_ACKED), "Accepter FIN acked.")
      ELSE T

action_INITIATOR_FIN_ACKED_FIN(T, tup, p) ==
    IF FromInitiator(T.flows[tup], p)
      THEN SetState(T, tup, CS_BOTH_SENT_FIN_INITIATOR_ACKED)
      ELSE T

action_ACCEPTER_FIN_ACKED_FIN(T, tup, p) ==
    IF FromInitiator(T.flows[tup], p)
      THEN SetState(T, tup, CS_BOTH_SENT_FIN_ACCEPTER_ACKED)
      ELSE T

\* the final ACK always leaves the flow waiting for buffered packets
action_BOTH_SENT_FIN_INITIATOR_ACKED_STATE_Lingers(T, tup, p) ==
    IF ~FromAccepter(T.flows[tup], p) THEN T
    ELSE SetState(T, tup, CS_PENDING_CLOSE)

action_BOTH_SENT_FIN_INITIATOR_ACKED_STATE(T, tup, p) ==
    IF ~FromAccepter(T.flows[tup], p) THEN T
    ELSE IF Len(T.flows[tup].pending) > 0
      THEN SetState(T, tup, CS_PENDING_CLOSE)
      ELSE flush_and_close(T, T.flows[tup])

action_INITIATOR_SENT_FIN_FIN(T, tup, p) ==
    IF FromAccepter(T.flows[tup], p)
      THEN SetState(T, tup, CS_BOTH_SENT_FIN)
      ELSE T

action_ACCEPTER_SENT_FIN_FIN(T, tup, p) ==
    IF FromInitiator(T.flows[tup], p)
      THEN SetState(T, tup, CS_BOTH_SENT_FIN)
      ELSE T

action_BOTH_SENT_FIN_STATE(T, tup, p) ==
    IF FromInitiator(T.flows[tup], p)
      THEN SetState(T, tup, CS_BOTH_SENT_FIN_INITIATOR_ACKED)
      ELSE SetState(T, tup, CS_BOTH_SENT_FIN_ACCEPTER_ACKED)

action_BOTH_SENT_FIN_ACCEPTER_ACKED_STATE(T, tup, p) ==
    IF ~FromInitiator(T.flows[tup], p) THEN T
    ELSE IF Len(T.flows[tup].pending) > 0
      THEN SetState(T, tup, CS_PENDING_CLOSE)
      ELSE flush_and_close(T, T.flows[tup])

action_PENDING_CLOSE_DATA(T, tup, p) ==
    LET T1 == IF FromInitiator(T.flows[tup], p)
                THEN add_segment(T, tup, 0, p.body, p.seq)
                ELSE add_segment(T, tup, 1, p.body, p.seq)
    IN  IF Len(T1.flows[tup].pending) = 0
          THEN flush_and_close(T1, T1.flows[tup])
          ELSE T1

\* DATA after a FIN is handled as on a connected flow
action_FIN_DATA_Reconnects(T, tup, p) == action_CONNECTING_DATA(T, tup, p)

action_FIN_DATA(T, tup, p) ==
    IF FromInitiator(T.flows[tup], p)
      THEN add_segment(T, tup, 0, p.body, p.seq)
      ELSE add_segment(T, tup, 1, p.body, p.seq)

\* the SYN is handed to the INIT handler while the old flow is still open
action_FIN_SYN_NoClose(T, tup, p) == action_INIT_SYN(T, tup, p)

action_FIN_SYN(T, tup, p) ==
    action_INIT_SYN(flush_and_close(T, T.flows[tup]), tup, p)

----------------------------------------------------------------------------
(* trace: lookup, dispatch key, handler                                    *)

Lookup1(p) ==
    <<p.src, p.dst, IF p.type = ST_SYN THEN p.connid ELSE p.connid - 1>>

\* the second lookup takes the sender as initiator, like the first
Lookup2_Forward(p) == <<p.src, p.dst, p.connid>>

Lookup2(p) == <<p.dst, p.src, p.connid>>

FindFlow(fl, p) ==
    IF Lookup1(p) \in DOMAIN fl THEN Lookup1(p)
    ELSE IF Lookup2(p) \in DOMAIN fl THEN Lookup2(p)
    ELSE NoKey

Dispatch(fl, p) ==
    LET tup == FindFlow(fl, p)
    IN  [s |-> IF tup = NoKey THEN CS_INIT ELSE fl[tup].state,
         t |-> p.type,
         e |-> tup # NoKey,
         flow |-> tup,
         lookup |-> IF tup = NoKey THEN 0
                    ELSE IF Lookup1(p) \in DOMAIN fl THEN 1 ELSE 2]

FinStates ==
    {CS_INITIATOR_SENT_FIN, CS_ACCEPTER_SENT_FIN, CS_INITIATOR_FIN_ACKED,
     CS_ACCEPTER_FIN_ACKED, CS_BOTH_SENT_FIN, CS_BOTH_SENT_FIN_INITIATOR_ACKED,
     CS_BOTH_SENT_FIN_ACCEPTER_ACKED}

state_machine ==
    {<<CS_INIT, ST_SYN, FALSE>>,
     <<CS_HANDSHAKE, ST_STATE, TRUE>>, <<CS_HANDSHAKE, ST_SYN, TRUE>>,
     <<CS_SYN_ACKED, ST_FIN, TRUE>>,
     <<CS_SYN_ACKED, ST_DATA, TRUE>>, <<CS_CONNECTED, ST_DATA, TRUE>>,
     <<CS_CONNECTED, ST_STATE, TRUE>>, <<CS_CONNECTED, ST_RESET, TRUE>>,
     <<CS_CONNECTED, ST_FIN, TRUE>>,
     <<CS_INITIATOR_SENT_FIN, ST_STATE, TRUE>>,
     <<CS_ACCEPTER_SENT_FIN, ST_STATE, TRUE>>,
     <<CS_INITIATOR_FIN_ACKED, ST_FIN, TRUE>>,
     <<CS_ACCEPTER_FIN_ACKED, ST_FIN, TRUE>>,
     <<CS_BOTH_SENT_FIN_INITIATOR_ACKED, ST_STATE, TRUE>>,
     <<CS_INITIATOR_SENT_FIN, ST_FIN, TRUE>>,
     <<CS_ACCEPTER_SENT_FIN, ST_FIN, TRUE>>,
     <<CS_BOTH_SENT_FIN, ST_STATE, TRUE>>,
     <<CS_BOTH_SENT_FIN_ACCEPTER_ACKED, ST_STATE, TRUE>>,
     <<CS_PENDING_CLOSE, ST_DATA, TRUE>>}
    \cup {<<s, ST_DATA, TRUE>> : s \in FinStates}
    \cup {<<s, ST_SYN, TRUE>> : s \in FinStates}

KeyOf(d) == <<d.s, d.t, d.e>>

trace(T0, p) ==
    LET T == [T0 EXCEPT !.log = <<>>]
        d == Dispatch(T.flows, p)
        tup == d.flow
        k == KeyOf(d)
    IN  IF k \notin state_machine
          THEN Logged(T, "State not found in the state machine")
        ELSE IF k = <<CS_INIT, ST_SYN, FALSE>> THEN action_INIT_SYN(T, tup, p)
        ELSE IF k = <<CS_HANDSHAKE, ST_STATE, TRUE>> THEN action_HANDSHAKE_STATE(T, tup, p)
        ELSE IF k = <<CS_HANDSHAKE, ST_SYN, TRUE>> THEN action_HANDSHAKE_SYN(T, tup, p)
        ELSE IF k = <<CS_SYN_ACKED, ST_FIN, TRUE>> THEN action_SYN_ACKED_FIN(T, tup, p)
        ELSE IF k \in {<<CS_SYN_ACKED, ST_DATA, TRUE>>, <<CS_CONNECTED, ST_DATA, TRUE>>}
          THEN action_CONNECTING_DATA(T, tup, p)
        ELSE IF k = <<CS_CONNECTED, ST_STATE, TRUE>> THEN action_CONNECTED_STATE(T, tup, p)
        ELSE IF k = <<CS_CONNECTED, ST_RESET, TRUE>> THEN action_CONNECTED_RESET(T, tup, p)
        ELSE IF k = <<CS_CONNECTED, ST_FIN, TRUE>> THEN action_CONNECTED_FIN(T, tup, p)
        ELSE IF k = <<CS_INITIATOR_SENT_FIN, ST_STATE, TRUE>>
          THEN action_INITIATOR_SENT_FIN_STATE(T, tup, p)
        ELSE IF k = <<CS_ACCEPTER_SENT_FIN, ST_STATE, TRUE>>
          THEN action_ACCEPTER_SENT_FIN_STATE(T, tup, p)
        ELSE IF k = <<CS_INITIATOR_FIN_ACKED, ST_FIN, TRUE>>
          THEN action_INITIATOR_FIN_ACKED_FIN(T, tup, p)
        ELSE IF k = <<CS_ACCEPTER_FIN_ACKED, ST_FIN, TRUE>>
          THEN action_ACCEPTER_FIN_ACKED_FIN(T, tup, p)
        ELSE IF k = <<CS_BOTH_SENT_FIN_INITIATOR_ACKED, ST_STATE, TRUE>>
          THEN action_BOTH_SENT_FIN_INITIATOR_ACKED_STATE(T, tup, p)
        ELSE IF k = <<CS_INITIATOR_SENT_FIN, ST_FIN, TRUE>>
          THEN action_INITIATOR_SENT_FIN_FIN(T, tup, p)
        ELSE IF k = <<CS_ACCEPTER_SENT_FIN, ST_FIN, TRUE>>
          THEN action_ACCEPTER_SENT_FIN_FIN(T, tup, p)
        ELSE IF k = <<CS_BOTH_SENT_FIN, ST_STATE, TRUE>>
          THEN action_BOTH_SENT_FIN_STATE(T, tup, p)
        ELSE IF k = <<CS_BOTH_SENT_FIN_ACCEPTER_ACKED, ST_STATE, TRUE>>
          THEN action_BOTH_SENT_FIN_ACCEPTER_ACKED_STATE(T, tup, p)
        ELSE IF k = <<CS_PENDING_CLOSE, ST_DATA, TRUE>>
          THEN action_PENDING_CLOSE_DATA(T, tup, p)
        ELSE IF k[2] = ST_DATA THEN action_FIN_DATA(T, tup, p)
        ELSE action_FIN_SYN(T, tup, p)

----------------------------------------------------------------------------
(* The tracer as a state machine                                           *)

Tracer ==
    [flows |-> flows, events |-> events, nextId |-> nextId, base |-> base,
     log |-> log, exc |-> exc]

NoFlows == [k \in {} |-> 0]

NoDispatch ==
    [s |-> CS_INIT, t |-> ST_DATA, e |-> FALSE, flow |-> NoKey, lookup |-> 0]

Init ==
    /\ flows = NoFlows
    /\ events = <<>>
    /\ nextId = 1
    /\ base = NoFlows
    /\ disp = NoDispatch
    /\ log = <<>>
    /\ exc = "none"
    /\ script = <<>>
    /\ pos = 0

\* the tracer's fields after a call
Commit(T) ==
    /\ flows' = T.flows
    /\ events' = T.events
    /\ nextId' = T.nextId
    /\ base' = T.base
    /\ log' = T.log
    /\ exc' = T.exc

\* one call of trace(pkt)
TraceCall(p) ==
    /\ exc = "none"
    /\ Commit(trace(Tracer, p))
    /\ disp' = Dispatch(flows, p)

\* the packets the bounded model reads in the current state
Readable(p) ==
    LET d == Dispatch(flows, p)
    IN  /\ Len(events) < MaxEvents
        /\ (p.type = ST_SYN => nextId <= MaxFlows)
        \* the endpoints are interchangeable: the first flow is opened by "A"
        /\ (p.type = ST_SYN /\ nextId = 1 => p.src = "A")
        /\ (p.type = ST_SYN /\ ~d.e => Cardinality(DOMAIN flows) < MaxLive)

\* the buffers stay within the bound of the model
Bounded(fl) == \A k \in DOMAIN fl : Len(fl[k].pending) <= MaxPending

\* trace(pkt) on a packet read from the capture, outside any scenario
Read(p) ==
    /\ Readable(p)
    /\ TraceCall(p)
    /\ Bounded(flows')
    /\ UNCHANGED <<script, pos>>

\* one action per registered handler, and one for the packets no handler takes

On_INIT_SYN ==
    \E p \in PacketsByType[ST_SYN] :
        /\ KeyOf(Dispatch(flows, p)) = <<CS_INIT, ST_SYN, FALSE>>
        /\ Read(p)

On_HANDSHAKE_STATE ==
    \E p \in PacketsByType[ST_STATE] :
        /\ KeyOf(Dispatch(flows, p)) = <<CS_HANDSHAKE, ST_STATE, TRUE>>
        /\ Read(p)

On_HANDSHAKE_SYN ==
    \E p \in PacketsByType[ST_SYN] :
        /\ KeyOf(Dispatch(flows, p)) = <<CS_HANDSHAKE, ST_SYN, TRUE>>
        /\ Read(p)

On_SYN_ACKED_FIN ==
    \E p \in PacketsByType[ST_FIN] :
        /\ KeyOf(Dispatch(flows, p)) = <<CS_SYN_ACKED, ST_FIN, TRUE>>
        /\ Read(p)

On_CONNECTING_DATA ==
    \E p \in PacketsByType[ST_DATA] :
        /\ Dispatch(flows, p).e
        /\ Dispatch(flows, p).s \in {CS_SYN_ACKED, CS_CONNECTED}
        /\ Read(p)

On_CONNECTED_STATE ==
    \E p \in PacketsByType[ST_STATE] :
        /\ KeyOf(Dispatch(flows, p)) = <<CS_CONNECTED, ST_STATE, TRUE>>
        /\ Read(p)

On_CONNECTED_RESET ==
    \E p \in PacketsByType[ST_RESET] :
        /\ KeyOf(Dispatch(flows, p)) = <<CS_CONNECTED, ST_RESET, TRUE>>
        /\ Read(p)

On_CONNECTED_FIN ==
    \E p \in PacketsByType[ST_FIN] :
        /\ KeyOf(Dispatch(flows, p)) = <<CS_CONNECTED, ST_FIN, TRUE>>
        /\ Read(p)

On_INITIATOR_SENT_FIN_STATE ==
    \E p \in PacketsByType[ST_STATE] :
        /\ KeyOf(Dispatch(flows, p)) = <<CS_INITIATOR_SENT_FIN, ST_STATE, TRUE>>
        /\ Read(p)

On_ACCEPTER_SENT_FIN_STATE ==
    \E p \in PacketsByType[ST_STATE] :
        /\ KeyOf(Dispatch(flows, p)) = <<CS_ACCEPTER_SENT_FIN, ST_STATE, TRUE>>
        /\ Read(p)

On_INITIATOR_FIN_ACKED_FIN ==
    \E p \in PacketsByType[ST_FIN] :
        /\ KeyOf(Dispatch(flows, p)) = <<CS_INITIATOR_FIN_ACKED, ST_FIN, TRUE>>
        /\ Read(p)

On_ACCEPTER_FIN_ACKED_FIN ==
    \E p \in PacketsByType[ST_FIN] :
        /\ KeyOf(Dispatch(flows, p)) = <<CS_ACCEPTER_FIN_ACKED, ST_FIN, TRUE>>
        /\ Read(p)

On_BOTH_SENT_FIN_INITIATOR_ACKED_STATE ==
    \E p \in PacketsByType[ST_STATE] :
        /\ KeyOf(Dispatch(flows, p)) = <<CS_BOTH_SENT_FIN_INITIATOR_ACKED, ST_STATE, TRUE>>
        /\ Read(p)

On_INITIATOR_SENT_FIN_FIN ==
    \E p \in PacketsByType[ST_FIN] :
        /\ KeyOf(Dispatch(flows, p)) = <<CS_INITIATOR_SENT_FIN, ST_FIN, TRUE>>
        /\ Read(p)

On_ACCEPTER_SENT_FIN_FIN ==
    \E p \in PacketsByType[ST_FIN] :
        /\ KeyOf(Dispatch(flows, p)) = <<CS_ACCEPTER_SENT_FIN, ST_FIN, TRUE>>
        /\ Read(p)

On_BOTH_SENT_FIN_STATE ==
    \E p \in PacketsByType[ST_STATE] :
        /\ KeyOf(Dispatch(flows, p)) = <<CS_BOTH_SENT_FIN, ST_STATE, TRUE>>
        /\ Read(p)

On_BOTH_SENT_FIN_ACCEPTER_ACKED_STATE ==
    \E p \in PacketsByType[ST_STATE] :
        /\ KeyOf(Dispatch(flows, p)) = <<CS_BOTH_SENT_FIN_ACCEPTER_ACKED, ST_STATE, TRUE>>
        /\ Read(p)

On_PENDING_CLOSE_DATA ==
    \E p \in PacketsByType[ST_DATA] :
        /\ KeyOf(Dispatch(flows, p)) = <<CS_PENDING_CLOSE, ST_DATA, TRUE>>
        /\ Read(p)

On_FIN_DATA ==
    \E p \in PacketsByType[ST_DATA] :
        /\ Dispatch(flows, p).e
        /\ Dispatch(flows, p).s \in FinStates
        /\ Read(p)

On_FIN_SYN ==
    \E p \in PacketsByType[ST_SYN] :
        /\ Dispatch(flows, p).e
        /\ Dispatch(flows, p).s \in FinStates
        /\ Read(p)

NotInStateMachine ==
    \E p \in Packets :
        /\ KeyOf(Dispatch(flows, p)) \notin state_machine
        /\ Read(p)

Next ==
    \/ On_INIT_SYN
    \/ On_HANDSHAKE_STATE
    \/ On_HANDSHAKE_SYN
    \/ On_SYN_ACKED_FIN
    \/ On_CONNECTING_DATA
    \/ On_CONNECTED_STATE
    \/ On_CONNECTED_RESET
    \/ On_CONNECTED_FIN
    \/ On_INITIATOR_SENT_FIN_STATE
    \/ On_ACCEPTER_SENT_FIN_STATE
    \/ On_INITIATOR_FIN_ACKED_FIN
    \/ On_ACCEPTER_FIN_ACKED_FIN
    \/ On_BOTH_SENT_FIN_INITIATOR_ACKED_STATE
    \/ On_INITIATOR_SENT_FIN_FIN
    \/ On_ACCEPTER_SENT_FIN_FIN
    \/ On_BOTH_SENT_FIN_STATE
    \/ On_BOTH_SENT_FIN_ACCEPTER_ACKED_STATE
    \/ On_PENDING_CLOSE_DATA
    \/ On_FIN_DATA
    \/ On_FIN_SYN
    \/ NotInStateMachine

Spec == Init /\ [][Next]_vars

----------------------------------------------------------------------------
(* Scenarios: the tracer reads a given capture, packet by packet           *)

Pkt(type, src, dst, connid, seq, body) ==
    [type |-> type, src |-> src, dst |-> dst, connid |-> connid,
     seq |-> seq, body |-> body]

\* the 16-bit connection id an initiator puts on the wire after its SYN
SendId(c) == (c + 1) % Modulus

\* A opens towards B; the flow then expects n0 from A and n1 from B
Handshake(c, n0, n1) ==
    <<Pkt(ST_SYN, "A", "B", c, (n0 + Modulus - 1) % Modulus, ""),
      Pkt(ST_STATE, "B", "A", c, n1, "")>>

\* scenario 1: handshake, two segments in order, graceful close
GracefulCapture(c, n0, n1) ==
    Handshake(c, n0, n1) \o
    <<Pkt(ST_DATA, "A", "B", SendId(c), n0, "hello"),
      Pkt(ST_DATA, "A", "B", SendId(c), (n0 + 1) % Modulus, "world"),
      Pkt(ST_FIN, "A", "B", SendId(c), (n0 + 2) % Modulus, ""),
      Pkt(ST_STATE, "B", "A", c, (n1 + 1) % Modulus, ""),
      Pkt(ST_FIN, "B", "A", c, (n1 + 2) % Modulus, ""),
      Pkt(ST_STATE, "A", "B", SendId(c), (n0 + 3) % Modulus, "")>>

GracefulCaptures ==
    {GracefulCapture(c, n0, n1) : c \in ConnIds, n0 \in Seqs, n1 \in Seqs}

\* scenario 2: after the handshake, DATA n, n+1, ..., n+k-1 of one direction
\* arrive once each, in the order perm; the body of n+i-1 is the numeral of i
Perms(k) ==
    {f \in [1 .. k -> 1 .. k] : \A i, j \in 1 .. k : f[i] = f[j] => i = j}

DataOf(c, d, n, i) ==
    IF d = 0
      THEN Pkt(ST_DATA, "A", "B", SendId(c), (n + i - 1) % Modulus, ToString(i))
      ELSE Pkt(ST_DATA, "B", "A", c, (n + i - 1) % Modulus, ToString(i))

ReorderCapture(d, n0, n1, k, perm) ==
    Handshake(0, n0, n1) \o
    [i \in 1 .. k |-> DataOf(0, d, IF d = 0 THEN n0 ELSE n1, perm[i])]

ReorderCaptures ==
    UNION {{ReorderCapture(d, n0, n1, k, perm) : perm \in Perms(k)} :
            <<d, n0, n1, k>> \in {0, 1} \X Seqs \X Seqs \X (1 .. MaxK)}

\* scenario 5: B sends a SYN of its own, with another connection id, while the
\* flow A opened is in HANDSHAKE
SupplantCapture(c, c2, s, s2) ==
    <<Pkt(ST_SYN, "A", "B", c, s, ""), Pkt(ST_SYN, "B", "A", c2, s2, "")>>

SupplantCaptures ==
    {SupplantCapture(c, c2, s, s2) :
        <<c, c2, s, s2>> \in {x \in ConnIds \X ConnIds \X Seqs \X Seqs : x[1] # x[2]}}

Captures == GracefulCaptures \cup ReorderCaptures \cup SupplantCaptures

InitCapture ==
    /\ flows = NoFlows
    /\ events = <<>>
    /\ nextId = 1
    /\ base = NoFlows
    /\ disp = NoDispatch
    /\ log = <<>>
    /\ exc = "none"
    /\ script \in Captures
    /\ pos = 0

\* trace_pcap: the next packet of the capture goes to trace
Feed ==
    /\ pos < Len(script)
    /\ TraceCall(script[pos + 1])
    /\ pos' = pos + 1
    /\ UNCHANGED script

SpecCapture == InitCapture /\ [][Feed]_vars

----------------------------------------------------------------------------
(* Properties                                                              *)

Ids == 1 .. (nextId - 1)

IsSegment(e) == e.ev = "new_segment"

\* the new_segment calls made for flow object id in direction d, in order
Segments(id, d) ==
    SelectSeq(events, LAMBDA e : IsSegment(e) /\ e.id = id /\ e.dir = d)

\* C1: for every flow and direction, the sequence numbers of the DATA packets
\* handed to new_segment are s, s+1, s+2, ... modulo 2^16, without gap or repeat,
\* s being seq0 (direction 0) or seq1 (direction 1) as it was when the first DATA
\* packet of the flow was processed.
C1_SegmentsConsecutive ==
    \A id \in Ids : \A d \in {0, 1} :
        LET L == Segments(id, d)
        IN  L # <<>> =>
              /\ id \in DOMAIN base
              /\ \A i \in 1 .. Len(L) :
                    L[i].seq = (base[id][d + 1] + i - 1) % Modulus

\* two segments of one direction were delivered across the wrap, the second one
\* out of the pending list
C1_Witness ==
    \E id \in Ids : \E d \in {0, 1} :
        /\ Len(Segments(id, d)) >= 2
        /\ Segments(id, d)[1].seq = Modulus - 1
        /\ Segments(id, d)[2].seq = 0
        /\ \E i \in 1 .. Len(log) : log[i] = "Pending segment added"

\* the reordering scenario read by the current run: direction, first expected
\* sequence number, number of DATA packets, and the flow they belong to
ReorderRun == script \in ReorderCaptures
RunDir == IF script[3].src = "A" THEN 0 ELSE 1
RunFirst == IF RunDir = 0 THEN (script[1].seq + 1) % Modulus ELSE script[2].seq
RunLen == Len(script) - 2
RunTup == <<"A", "B", script[1].connid>>
Finished == pos = Len(script)

\* C3: on an established flow expecting n in direction d, DATA n, ..., n+k-1 of
\* direction d arriving once each in any order make exactly k new_segment calls
\* for d, payloads in ascending sequence order; afterwards pending holds no entry
\* of that direction and the expected sequence number is n+k.
C3_GapFill ==
    (ReorderRun /\ Finished) =>
        /\ Len(Segments(1, RunDir)) = RunLen
        /\ \A i \in 1 .. RunLen :
              /\ Segments(1, RunDir)[i].seq = (RunFirst + i - 1) % Modulus
              /\ Segments(1, RunDir)[i].body = ToString(i)
        /\ RunTup \in DOMAIN flows
        /\ \A j \in 1 .. Len(flows[RunTup].pending) :
              flows[RunTup].pending[j].dir # RunDir
        /\ Expected(flows[RunTup], RunDir) = (RunFirst + RunLen) % Modulus

\* three or more packets were read in reverse order, starting below the wrap
C3_Witness ==
    /\ ReorderRun /\ Finished
    /\ RunLen >= 3
    /\ RunFirst = Modulus - 1
    /\ \A i \in 1 .. RunLen : script[2 + i].body = ToString(RunLen + 1 - i)
    /\ Len(Segments(1, RunDir)) = RunLen

\* C5: with 65535 expected in a direction, DATA 65535 and DATA 0 are both
\* delivered, 65535 first, whichever arrives first (0 arriving first is buffered,
\* not discarded as a duplicate), and 1 is expected afterwards.
C5_SequenceWrap ==
    (ReorderRun /\ RunLen = 2 /\ RunFirst = Modulus - 1) =>
        /\ (pos = 3 /\ script[3].seq = 0) =>
              /\ Segments(1, RunDir) = <<>>
              /\ Len(flows[RunTup].pending) = 1
              /\ flows[RunTup].pending[1].seq = 0
              /\ flows[RunTup].pending[1].dir = RunDir
              /\ log = <<"Out of order packet. Added to pending list.">>
        /\ Finished =>
              /\ Len(Segments(1, RunDir)) = 2
              /\ Segments(1, RunDir)[1].seq = Modulus - 1
              /\ Segments(1, RunDir)[2].seq = 0
              /\ flows[RunTup].pending = <<>>
              /\ Expected(flows[RunTup], RunDir) = 1

\* DATA 0 arrived before DATA 65535 from the initiator, and both were read
C5_Witness ==
    /\ ReorderRun /\ RunLen = 2 /\ RunFirst = Modulus - 1
    /\ RunDir = 0
    /\ script[3].seq = 0
    /\ Finished
    /\ Len(Segments(1, 0)) = 2

\* the direction a DATA handler gives to packet p of flow f
DirOf(f, p) == IF FromInitiator(f, p) THEN 0 ELSE 1

SegmentsOnly(evs) == SelectSeq(evs, IsSegment)

LastEvent == events[Len(events)]

\* events' is events followed by one flow_closed of flow object id
ClosedOnce(id) ==
    /\ Len(events') = Len(events) + 1
    /\ SubSeq(events', 1, Len(events)) = events
    /\ events'[Len(events')].ev = "flow_closed"
    /\ events'[Len(events')].id = id

\* C4: a DATA packet whose sequence number is serially less than the expected
\* one of its direction causes no new_segment call, for itself or for a buffered
\* packet, and leaves seq0, seq1 and pending as they were.
C4_DuplicateIgnored ==
    [][disp'.t = ST_DATA =>
        \A p \in PacketsByType[ST_DATA] :
            LET d == Dispatch(flows, p)
            IN  (/\ d.e
                 /\ SerialLt(p.seq, Expected(flows[d.flow], DirOf(flows[d.flow], p)))
                 /\ Read(p))
                =>
                (/\ SegmentsOnly(events') = SegmentsOnly(events)
                 /\ DOMAIN flows' = DOMAIN flows
                 /\ \A k \in DOMAIN flows :
                        /\ flows'[k].seq0 = flows[k].seq0
                        /\ flows'[k].seq1 = flows[k].seq1
                        /\ flows'[k].pending = flows[k].pending)]_vars

\* a duplicate was read while the flow had a packet buffered
C4_Witness ==
    /\ log = <<"Duplicate packet. Ignored.">>
    /\ disp.t = ST_DATA /\ disp.e
    /\ disp.flow \in DOMAIN flows
    /\ flows[disp.flow].pending # <<>>

\* a step that takes flow k from SYN_ACKED to CONNECTED
EntersConnected(k) ==
    /\ k \in DOMAIN flows /\ k \in DOMAIN flows'
    /\ flows'[k].id = flows[k].id
    /\ flows[k].state = CS_SYN_ACKED
    /\ flows'[k].state = CS_CONNECTED

\* C7 as stated: pending is empty at the instant a flow enters CONNECTED for the
\* first time.
C7_EmptyOnConnect ==
    [][\A k \in DOMAIN flows : EntersConnected(k) => flows'[k].pending = <<>>]_vars

\* C7 as amended: pending is empty while a flow is in SYN_ACKED; when the flow
\* enters CONNECTED for the first time pending holds exactly the DATA packet that
\* caused the step if its sequence number is serially greater than the expected
\* one of its direction, and is empty otherwise.
C7_AtMostThePacket ==
    [][disp'.t = ST_DATA =>
        \A p \in PacketsByType[ST_DATA] :
            LET d == Dispatch(flows, p)
            IN  (d.e /\ Read(p) /\ EntersConnected(d.flow))
                =>
                LET f == flows[d.flow]
                    dir == DirOf(f, p)
                IN  /\ f.pending = <<>>
                    /\ flows'[d.flow].pending =
                         IF SerialGt(p.seq, Expected(f, dir))
                           THEN <<[body |-> p.body, seq |-> p.seq, dir |-> dir]>>
                           ELSE <<>>]_vars

\* a flow in SYN_ACKED read a DATA packet ahead of the expected one
C7_Witness ==
    /\ disp.s = CS_SYN_ACKED /\ disp.t = ST_DATA /\ disp.e
    /\ disp.flow \in DOMAIN flows
    /\ flows[disp.flow].state = CS_CONNECTED
    /\ Len(flows[disp.flow].pending) = 1
    /\ log = <<"Out of order packet. Added to pending list.">>

\* C8: a RESET that matches a flow in CONNECTED closes it: exactly one
\* flow_closed for that flow, and its key leaves the table, whether or not
\* pending is empty.
C8_ResetClosesConnected ==
    [][disp'.t = ST_RESET =>
        \A p \in PacketsByType[ST_RESET] :
            LET d == Dispatch(flows, p)
            IN  (d.e /\ d.s = CS_CONNECTED /\ Read(p))
                =>
                (/\ ClosedOnce(flows[d.flow].id)
                 /\ d.flow \notin DOMAIN flows')]_vars

\* the accepter reset a CONNECTED flow that had a packet buffered
C8_Witness ==
    /\ disp.t = ST_RESET /\ disp.s = CS_CONNECTED /\ disp.lookup = 2
    /\ events # <<>>
    /\ LastEvent.ev = "flow_closed"
    /\ LastEvent.npending > 0
    /\ LastEvent.tup \notin DOMAIN flows

\* C9: a RESET that matches a flow closes it in every state of the flow.
C9_ResetClosesAlways ==
    [][disp'.t = ST_RESET =>
        \A p \in PacketsByType[ST_RESET] :
            LET d == Dispatch(flows, p)
            IN  (d.e /\ Read(p))
                =>
                (/\ ClosedOnce(flows[d.flow].id)
                 /\ d.flow \notin DOMAIN flows')]_vars

\* the rows (state, type, direction) of the transition table, direction 1 for
\* initiator -> accepter and 2 for accepter -> initiator, as the lookup finds it
BothWays(s, t) == {<<s, t, 1>>, <<s, t, 2>>}

TransitionTable ==
    {<<CS_HANDSHAKE, ST_SYN, 1>>, <<CS_HANDSHAKE, ST_SYN, 2>>,
     <<CS_HANDSHAKE, ST_STATE, 1>>, <<CS_HANDSHAKE, ST_STATE, 2>>,
     <<CS_SYN_ACKED, ST_FIN, 1>>, <<CS_SYN_ACKED, ST_FIN, 2>>,
     <<CS_CONNECTED, ST_FIN, 1>>, <<CS_CONNECTED, ST_FIN, 2>>,
     <<CS_ACCEPTER_SENT_FIN, ST_STATE, 1>>,
     <<CS_INITIATOR_FIN_ACKED, ST_FIN, 1>>,
     <<CS_ACCEPTER_FIN_ACKED, ST_FIN, 1>>,
     <<CS_INITIATOR_SENT_FIN, ST_FIN, 2>>,
     <<CS_ACCEPTER_SENT_FIN, ST_FIN, 1>>,
     <<CS_BOTH_SENT_FIN, ST_STATE, 1>>, <<CS_BOTH_SENT_FIN, ST_STATE, 2>>,
     <<CS_BOTH_SENT_FIN_INITIATOR_ACKED, ST_STATE, 2>>,
     <<CS_BOTH_SENT_FIN_ACCEPTER_ACKED, ST_STATE, 1>>}
    \cup BothWays(CS_SYN_ACKED, ST_DATA) \cup BothWays(CS_CONNECTED, ST_DATA)
    \cup BothWays(CS_CONNECTED, ST_STATE) \cup BothWays(CS_CONNECTED, ST_RESET)
    \cup BothWays(CS_INITIATOR_SENT_FIN, ST_STATE)
    \cup BothWays(CS_PENDING_CLOSE, ST_DATA)
    \cup UNION {BothWays(s, ST_DATA) \cup BothWays(s, ST_SYN) : s \in FinStates}

HasRow(d) ==
    IF d.e THEN <<d.s, d.t, d.lookup>> \in TransitionTable
    ELSE d.t = ST_SYN

\* C10: a packet whose (state, type, direction) has no row in the transition
\* table leaves the flow table (states, seq0, seq1, pending) as it was and emits
\* no event.
C10_NoRowNoChange ==
    [][\A p \in Packets :
            (/\ Dispatch(flows, p) = disp'
             /\ ~HasRow(Dispatch(flows, p))
             /\ Read(p))
            => (flows' = flows /\ events' = events)]_vars

\* C2: after the capture of scenario 1 the callbacks were one new_flow, two
\* new_segment of direction 0 in arrival order and one flow_closed, and the flow
\* has left the table.
C2_GracefulClose ==
    (script \in GracefulCaptures /\ Finished) =>
        /\ Len(events) = 4
        /\ events[1].ev = "new_flow"
        /\ IsSegment(events[2]) /\ events[2].dir = 0 /\ events[2].body = "hello"
        /\ IsSegment(events[3]) /\ events[3].dir = 0 /\ events[3].body = "world"
        /\ events[4].ev = "flow_closed"
        /\ \A i \in 1 .. 4 : events[i].id = 1
        /\ RunTup \notin DOMAIN flows

\* C6: after the capture of scenario 5 the callbacks were new_flow(old),
\* flow_closed(old), new_flow(new); the old key has left the table and the new
\* flow has B as initiator.
C6_SupplantingSyn ==
    (script \in SupplantCaptures /\ Finished) =>
        /\ Len(events) = 3
        /\ events[1].ev = "new_flow" /\ events[1].id = 1
        /\ events[2].ev = "flow_closed" /\ events[2].id = 1
        /\ events[3].ev = "new_flow" /\ events[3].id = 2
        /\ RunTup \notin DOMAIN flows
        /\ <<"B", "A", script[2].connid>> \in DOMAIN flows

----------------------------------------------------------------------------
(* Lookup and table                                                        *)

\* p is a packet other than a SYN that the initiator of the flow keyed k sends:
\* it carries the flow's connection id plus one, modulo 2^16
InitiatorSends(k, p) ==
    /\ p.type # ST_SYN
    /\ p.src = k[1] /\ p.dst = k[2]
    /\ p.connid = SendId(k[3])

\* C11: a packet other than a SYN sent by the initiator of a live flow whose
\* connection id is 65535 (so the packet carries 0) is attached to that flow and
\* dispatched on the flow's state.
C11_LookupWraps ==
    [][disp'.t # ST_SYN =>
        \A p \in Packets : \A k \in DOMAIN flows :
            (k[3] = Modulus - 1 /\ InitiatorSends(k, p) /\ Read(p))
            => (disp'.e /\ disp'.flow = k /\ disp'.s = flows[k].state)]_vars

----------------------------------------------------------------------------
(* Reassembly buffer and connection state                                  *)

\* C12: after a packet has been processed, no entry of a live flow's pending
\* buffer carries the sequence number the flow expects next in the entry's
\* direction (seq0 for direction 0, seq1 for direction 1).
C12_NoExpectedInPending ==
    \A k \in DOMAIN flows :
        \A j \in 1 .. Len(flows[k].pending) :
            flows[k].pending[j].seq # Expected(flows[k], flows[k].pending[j].dir)

\* a segment was delivered and moved the expected number while a later packet
\* of the same direction stays buffered
C12_Witness ==
    /\ disp.t = ST_DATA /\ disp.e
    /\ disp.flow \in DOMAIN flows
    /\ flows[disp.flow].pending # <<>>
    /\ events # <<>>
    /\ IsSegment(LastEvent)
    /\ LastEvent.id = flows[disp.flow].id
    /\ LastEvent.dir = flows[disp.flow].pending[1].dir
    /\ \E i \in 1 .. Len(log) : log[i] = "New segment arrived from the accepter."

\* the ranking of the connection states along the graph of the state machine
Rank(s) ==
    IF s = CS_HANDSHAKE THEN 1
    ELSE IF s = CS_SYN_ACKED THEN 2
    ELSE IF s = CS_CONNECTED THEN 3
    ELSE IF s \in {CS_INITIATOR_SENT_FIN, CS_ACCEPTER_SENT_FIN} THEN 4
    ELSE IF s \in {CS_INITIATOR_FIN_ACKED, CS_ACCEPTER_FIN_ACKED, CS_BOTH_SENT_FIN} THEN 5
    ELSE IF s \in {CS_BOTH_SENT_FIN_INITIATOR_ACKED, CS_BOTH_SENT_FIN_ACCEPTER_ACKED} THEN 6
    ELSE IF s = CS_PENDING_CLOSE THEN 7
    ELSE 0

\* flow object id was reported closed in evs
WasClosed(evs, id) ==
    \E i \in 1 .. Len(evs) : evs[i].ev = "flow_closed" /\ evs[i].id = id

\* C13: no packet moves the state of a live flow to a state of lower rank; a key
\* gets back to HANDSHAKE only when its flow is closed and a new flow is created
\* on a SYN.
C13_StateMovesForward ==
    [][\A k \in (DOMAIN flows) \cap (DOMAIN flows') :
            IF flows'[k].id = flows[k].id
              THEN Rank(flows'[k].state) >= Rank(flows[k].state)
              ELSE /\ disp'.t = ST_SYN
                   /\ flows'[k].state = CS_HANDSHAKE
                   /\ WasClosed(events', flows[k].id)
                   /\ ~WasClosed(events, flows[k].id)]_vars

\* a flow that has seen a FIN received DATA, delivered it and kept its state
C13_Witness ==
    /\ disp.t = ST_DATA /\ disp.e /\ disp.s \in FinStates
    /\ disp.flow \in DOMAIN flows
    /\ flows[disp.flow].state = disp.s
    /\ events # <<>>
    /\ IsSegment(LastEvent)
    /\ LastEvent.id = flows[disp.flow].id

----------------------------------------------------------------------------
(* Callbacks                                                               *)

\* the positions in events of the calls of callback ev for flow object id
CallsOf(ev, id) == {i \in 1 .. Len(events) : events[i].ev = ev /\ events[i].id = id}

\* C14: for every flow object new_flow is called exactly once, before any
\* new_segment of that flow; flow_closed is called at most once, and no
\* new_segment or flow_closed of the flow follows it.  A duplicate SYN from the
\* initiator of a flow in HANDSHAKE calls no second new_flow.
C14_CallbackOrder ==
    /\ \A i \in 1 .. Len(events) : events[i].id \in Ids
    /\ \A id \in Ids :
        /\ Cardinality(CallsOf("new_flow", id)) = 1
        /\ Cardinality(CallsOf("flow_closed", id)) <= 1
        /\ \A n \in CallsOf("new_flow", id) :
              \A i \in CallsOf("new_segment", id) \cup CallsOf("flow_closed", id) : n < i
        /\ \A c \in CallsOf("flow_closed", id) :
              \A i \in CallsOf("new_segment", id) : i < c

\* the initiator of a flow in HANDSHAKE repeated its SYN
C14_Witness ==
    /\ disp.s = CS_HANDSHAKE /\ disp.t = ST_SYN /\ disp.lookup = 1
    /\ log = <<"Duplicate SYN.">>
    /\ Cardinality(CallsOf("new_flow", 1)) = 1

----------------------------------------------------------------------------
(* Closing handshake                                                       *)

\* C16: on a flow in ACCEPTER_SENT_FIN a STATE packet from the initiator sets
\* the state to ACCEPTER_FIN_ACKED, and a STATE packet from the accepter leaves
\* the state as it is.
C16_AccepterFinAcked ==
    [][disp'.t = ST_STATE =>
        \A p \in PacketsByType[ST_STATE] :
            LET d == Dispatch(flows, p)
            IN  (d.e /\ d.s = CS_ACCEPTER_SENT_FIN /\ Read(p))
                =>
                (/\ d.flow \in DOMAIN flows'
                 /\ flows'[d.flow].state =
                        IF d.lookup = 1 THEN CS_ACCEPTER_FIN_ACKED
                        ELSE CS_ACCEPTER_SENT_FIN)]_vars

\* the STATE packet found by d is the final ACK of the closing handshake
FinalAck(d) ==
    /\ d.e /\ d.t = ST_STATE
    /\ \/ d.s = CS_BOTH_SENT_FIN_INITIATOR_ACKED /\ d.lookup = 2
       \/ d.s = CS_BOTH_SENT_FIN_ACCEPTER_ACKED /\ d.lookup = 1

\* the step closes the flow keyed k: flow_closed is the last callback of the
\* step, the only one for that flow object, and the key has left the table
ClosesFlow(k) ==
    /\ k \notin DOMAIN flows'
    /\ events'[Len(events')].ev = "flow_closed"
    /\ events'[Len(events')].id = flows[k].id
    /\ ~WasClosed(events, flows[k].id)
    /\ \A i \in (Len(events) + 1) .. (Len(events') - 1) : IsSegment(events'[i])

\* C17: a live flow in PENDING_CLOSE has a non-empty pending buffer; the final
\* ACK moves the flow to PENDING_CLOSE when pending is non-empty and closes it
\* otherwise; a DATA packet in PENDING_CLOSE closes the flow in the step in which
\* pending becomes empty.
C17_PendingCloseHasPending ==
    [][/\ \A k \in DOMAIN flows' :
              flows'[k].state = CS_PENDING_CLOSE => flows'[k].pending # <<>>
       /\ \A k \in DOMAIN flows :
              flows[k].state = CS_PENDING_CLOSE => flows[k].pending # <<>>
       /\ FinalAck(disp') =>
            \A p \in PacketsByType[ST_STATE] :
                LET d == Dispatch(flows, p)
                IN  (FinalAck(d) /\ Read(p)) =>
                        IF flows[d.flow].pending # <<>>
                          THEN /\ flows' = [flows EXCEPT ![d.flow].state = CS_PENDING_CLOSE]
                               /\ events' = events
                          ELSE ClosesFlow(d.flow)
       /\ (disp'.t = ST_DATA /\ disp'.s = CS_PENDING_CLOSE) =>
            \A p \in PacketsByType[ST_DATA] :
                LET d == Dispatch(flows, p)
                IN  (d.e /\ d.s = CS_PENDING_CLOSE /\ Read(p)) =>
                        IF d.flow \in DOMAIN flows'
                          THEN /\ flows'[d.flow].state = CS_PENDING_CLOSE
                               /\ flows'[d.flow].pending # <<>>
                               /\ ~WasClosed(events', flows[d.flow].id)
                          ELSE ClosesFlow(d.flow)]_vars

\* a flow left PENDING_CLOSE: the missing packet arrived, the buffered one was
\* delivered after it and the flow was closed
C17_Witness ==
    /\ disp.s = CS_PENDING_CLOSE /\ disp.t = ST_DATA /\ disp.e
    /\ disp.flow \notin DOMAIN flows
    /\ Len(events) >= 3
    /\ LastEvent.ev = "flow_closed"
    /\ IsSegment(events[Len(events) - 1])
    /\ IsSegment(events[Len(events) - 2])

\* C18: a SYN that matches a flow in one of the seven FIN states closes that
\* flow (one flow_closed, key removed) and then creates a flow as an INIT SYN
\* does: the sender of the SYN is the initiator, the connection id is the SYN's,
\* seq0 = seq + 1, state HANDSHAKE, pending empty, and new_flow follows the
\* flow_closed.
C18_SynAfterFin ==
    [][(disp'.t = ST_SYN /\ disp'.e /\ disp'.s \in FinStates) =>
        \A p \in PacketsByType[ST_SYN] :
            LET d == Dispatch(flows, p)
                new == <<p.src, p.dst, p.connid>>
            IN  (d.e /\ d.s \in FinStates /\ Read(p))
                =>
                (/\ exc' = "none"
                 /\ Len(events') = Len(events) + 2
                 /\ SubSeq(events', 1, Len(events)) = events
                 /\ events'[Len(events) + 1].ev = "flow_closed"
                 /\ events'[Len(events) + 1].id = flows[d.flow].id
                 /\ events'[Len(events) + 2].ev = "new_flow"
                 /\ events'[Len(events) + 2].id = nextId
                 /\ ~WasClosed(events, flows[d.flow].id)
                 /\ DOMAIN flows' = ((DOMAIN flows) \ {d.flow}) \cup {new}
                 /\ flows'[new] = [id |-> nextId, ini |-> p.src, acc |-> p.dst,
                                   connid |-> p.connid, seq0 |-> (p.seq + 1) % Modulus,
                                   seq1 |-> 0, state |-> CS_HANDSHAKE, pending |-> <<>>]
                 /\ \A k \in (DOMAIN flows) \ {d.flow} : flows'[k] = flows[k])]_vars

\* the accepter of a flow that has seen a FIN sent a SYN: the old flow is
\* closed and the new flow runs the other way
C18_Witness ==
    /\ disp.t = ST_SYN /\ disp.e /\ disp.s \in FinStates /\ disp.lookup = 2
    /\ disp.flow \notin DOMAIN flows
    /\ <<disp.flow[2], disp.flow[1], disp.flow[3]>> \in DOMAIN flows
    /\ flows[<<disp.flow[2], disp.flow[1], disp.flow[3]>>].state = CS_HANDSHAKE
    /\ Len(events) >= 2
    /\ LastEvent.ev = "new_flow"
    /\ events[Len(events) - 1].ev = "flow_closed"

----------------------------------------------------------------------------
(* Parsing: trace on a raw UDP payload                                     *)
(*                                                                         *)
(* A datagram is [src, dst, payload], payload being the sequence of the    *)
(* bytes of the UDP payload; byte i of the code is payload[i + 1].         *)

HeaderLen == 20
MaxTail == 4        \* bytes that follow the 20-byte header

\* first byte: type in the high nibble, version in the low one
FirstBytes == {1, 33, 65, 81, 2}
SmallBytes == {0, 1}

RECURSIVE Zeros(_)
Zeros(n) == IF n = 0 THEN <<>> ELSE <<0>> \o Zeros(n - 1)

Header(b0, b1, connid, seq) ==
    <<b0, b1, connid \div 256, connid % 256>> \o Zeros(12) \o
    <<seq \div 256, seq % 256, 0, 0>>

Tails == UNION {[1 .. n -> SmallBytes] : n \in 0 .. MaxTail}

Payloads ==
    {Header(b0, b1, c, 0) \o t :
        b0 \in FirstBytes, b1 \in SmallBytes, c \in SmallBytes, t \in Tails}
    \cup {<<>>, Zeros(HeaderLen - 1)}

Datagram(src, dst, payload) == [src |-> src, dst |-> dst, payload |-> payload]

\* the loop over the extension headers: the number of bytes they take, or the
\* way the loop ends early
RECURSIVE ParseExtensions(_, _, _)
ParseExtensions(payload, extension, ext_len) ==
    IF extension = 0
      THEN [status |-> "packet", ext_len |-> ext_len]
    ELSE IF Len(payload) < HeaderLen + ext_len + 1
      THEN [status |-> "rejected", ext_len |-> ext_len]
    ELSE IF Len(payload) < HeaderLen + ext_len + 2
      \* payload[20 + ext_len + 1] is read one byte past the end
      THEN [status |-> "IndexError", ext_len |-> ext_len]
    ELSE ParseExtensions(payload,
                         payload[HeaderLen + ext_len + 1],
                         ext_len + 2 + payload[HeaderLen + ext_len + 2])

Parsed(status, msg, type, connid, seq, body) ==
    [status |-> status, msg |-> msg, type |-> type, connid |-> connid,
     seq |-> seq, body |-> body]

ParsePayload(payload) ==
    IF Len(payload) < HeaderLen
      THEN Parsed("rejected", "Payload smaller than 20 bytes. Not a UTP packet.", 0, 0, 0, <<>>)
    ELSE IF payload[1] % 16 # 1
      THEN Parsed("rejected", "Invalid version. Not a UTP packet.", 0, 0, 0, <<>>)
    ELSE IF payload[1] \div 16 > 4
      THEN Parsed("rejected", "Invalid type. Not a UTP packet.", 0, 0, 0, <<>>)
    ELSE LET x == ParseExtensions(payload, payload[2], 0)
         IN  IF x.status = "rejected"
               THEN Parsed("rejected", "Invalid packet length. Not a UTP packet.", 0, 0, 0, <<>>)
             ELSE IF x.status = "IndexError"
               THEN Parsed("IndexError", "", 0, 0, 0, <<>>)
             ELSE Parsed("packet", "", payload[1] \div 16,
                         payload[3] * 256 + payload[4],
                         payload[17] * 256 + payload[18],
                         SubSeq(payload, HeaderLen + x.ext_len + 1, Len(payload)))

\* a run reads a SYN that opens a flow from A to B and then one datagram from A
RawCaptures ==
    {<<Datagram("A", "B", Header(65, 0, 0, 0)), Datagram("A", "B", y)>> : y \in Payloads}

InitRaw ==
    /\ flows = NoFlows
    /\ events = <<>>
    /\ nextId = 1
    /\ base = NoFlows
    /\ disp = NoDispatch
    /\ log = <<>>
    /\ exc = "none"
    /\ script \in RawCaptures
    /\ pos = 0

\* the effect of trace on the parse result r of a datagram g
TraceParsed(g, r) ==
    IF r.status = "packet"
      THEN TraceCall(Pkt(r.type, g.src, g.dst, r.connid, r.seq, r.body))
    ELSE IF r.status = "rejected"
      THEN /\ log' = <<r.msg>>
           /\ UNCHANGED <<flows, events, nextId, base, disp, exc>>
    ELSE /\ exc' = r.status
         /\ UNCHANGED <<flows, events, nextId, base, disp, log>>

\* trace_pcap: the next datagram of the capture goes to trace
FeedRaw ==
    /\ exc = "none"
    /\ pos < Len(script)
    /\ TraceParsed(script[pos + 1], ParsePayload(script[pos + 1].payload))
    /\ pos' = pos + 1
    /\ UNCHANGED script

SpecParse == InitRaw /\ [][FeedRaw]_vars

\* C15: for every UDP payload trace either parses the packet or rejects it
\* silently: no exception reaches the caller, and a rejected payload changes no
\* flow state.
C15_NoException ==
    [][/\ exc' = "none"
       /\ (pos < Len(script) /\ ParsePayload(script[pos + 1].payload).status # "packet")
            => (flows' = flows /\ events' = events)]_vars

----------------------------------------------------------------------------
(* The flow table with every pair of endpoints, a flow from an endpoint to *)
(* itself included, and several live flows                                 *)

MaxTableFlows == 3      \* UtpFlow objects constructed in one run
MaxTableLive == 2       \* a SYN opens a flow only while fewer flows are live

TableConnIds == {0, 1}
TableSeqs == {0, 1}

\* only the DATA packets vary in their sequence number
TablePackets ==
    {p \in [type : Types, src : Endpoints, dst : Endpoints,
            connid : TableConnIds, seq : TableSeqs, body : Bodies] :
        p.type # ST_DATA => p.seq = 0}

\* the packets the bounded model reads in the current state
ReadableTable(p) ==
    /\ Len(events) < MaxEvents
    /\ (p.type = ST_SYN => nextId <= MaxTableFlows)
    \* the endpoints are interchangeable: the first flow is opened by "A"
    /\ (p.type = ST_SYN /\ nextId = 1 => p.src = "A")
    /\ (p.type = ST_SYN /\ ~Dispatch(flows, p).e
            => Cardinality(DOMAIN flows) < MaxTableLive)

\* trace(pkt) on a packet between any two endpoints
ReadTablePacket(p) ==
    /\ ReadableTable(p)
    /\ TraceCall(p)
    /\ Bounded(flows')
    /\ UNCHANGED <<script, pos>>

ReadTable == \E p \in TablePackets : ReadTablePacket(p)

SpecTable == Init /\ [][ReadTable]_vars

\* the states in which a DATA packet goes to add_segment and the flow stays open
DataStates == {CS_SYN_ACKED, CS_CONNECTED} \cup FinStates

\* the step handles each packet of P that it may have read in the direction of
\* the lookup that found the flow; the direction shows in the handlers that act
\* on it: the SYN ACK in HANDSHAKE, the first FIN, and DATA
DirectionFollowsLookup(P) ==
    \A p \in P :
        LET d == Dispatch(flows, p)
            k == d.flow
        IN  (d.e /\ d = disp' /\ ReadTablePacket(p))
            =>
            (/\ (d.s = CS_HANDSHAKE /\ d.t = ST_STATE) =>
                    /\ k \in DOMAIN flows'
                    /\ flows'[k].state =
                          IF d.lookup = 2 THEN CS_SYN_ACKED ELSE CS_HANDSHAKE
             /\ (d.s \in {CS_SYN_ACKED, CS_CONNECTED} /\ d.t = ST_FIN) =>
                    /\ k \in DOMAIN flows'
                    /\ flows'[k].state =
                          IF d.lookup = 1 THEN CS_INITIATOR_SENT_FIN
                          ELSE CS_ACCEPTER_SENT_FIN
             /\ (d.s \in DataStates /\ d.t = ST_DATA) =>
                    LET T == add_segment([Tracer EXCEPT !.log = <<>>], k,
                                         d.lookup - 1, p.body, p.seq)
                    IN  /\ events' = T.events
                        /\ log' = T.log
                        /\ k \in DOMAIN flows'
                        /\ flows'[k].seq0 = T.flows[k].seq0
                        /\ flows'[k].seq1 = T.flows[k].seq1
                        /\ flows'[k].pending = T.flows[k].pending)

\* C19: the direction a handler gives a packet is the one of the lookup that
\* found the flow: initiator -> accepter (0) for the first lookup, accepter ->
\* initiator (1) for the second, for every pair of endpoints, a flow from an
\* endpoint to itself included.
C19_DirectionFollowsLookup ==
    [][disp'.e => DirectionFollowsLookup(TablePackets)]_vars

\* the same for the packets whose source and destination differ
DirectionFollowsLookupApart ==
    [][disp'.e => DirectionFollowsLookup({p \in TablePackets : p.src # p.dst})]_vars

\* C20: whenever a flow is created its key is held by no live flow: the
\* assertion of the INIT handler never fails, no creation overwrites a live flow
\* (a flow object leaves the table, or its key, only by being closed), and the
\* table never holds (A, B, c) together with (B, A, c).
C20_KeysUnique ==
    [][/\ exc' = "none"
       /\ \A k \in DOMAIN flows' :
              /\ k = TupOf(flows'[k])
              /\ k[1] # k[2] => <<k[2], k[1], k[3]>> \notin DOMAIN flows'
              /\ \A k2 \in DOMAIN flows' : flows'[k2].id = flows'[k].id => k2 = k
       /\ \A k \in DOMAIN flows :
              (k \notin DOMAIN flows' \/ flows'[k].id # flows[k].id)
                  => WasClosed(events', flows[k].id)]_vars

\* with two flows live, the accepter of one of them sent a SYN that closed it
\* and opened the third flow of the run, the other way round
C20_Witness ==
    /\ Cardinality(DOMAIN flows) = 2
    /\ nextId = 4
    /\ disp.t = ST_SYN /\ disp.e /\ disp.lookup = 2
    /\ disp.flow \notin DOMAIN flows
    /\ <<disp.flow[2], disp.flow[1], disp.flow[3]>> \in DOMAIN flows
    /\ events # <<>>
    /\ LastEvent.ev = "new_flow"

----------------------------------------------------------------------------
(* Counters of MyUtpTracer                                                 *)

\* the number of calls of callback ev recorded in evs
CountOf(evs, ev) == Cardinality({i \in 1 .. Len(evs) : evs[i].ev = ev})

\* self.added and self.closed: one increment per call of new_flow / flow_closed
added == CountOf(events, "new_flow")
closed == CountOf(events, "flow_closed")

\* the flow objects held by table fl
LiveIds(fl) == {fl[k].id : k \in DOMAIN fl}

\* the flow objects for which a step called callback ev
CalledFor(ev) ==
    {events'[i].id : i \in {j \in (Len(events) + 1) .. Len(events') : events'[j].ev = ev}}

\* C21: after any sequence of packets added - closed is the number of flows in
\* the flow table: every new_flow comes with the insertion of one new key and
\* every flow_closed with the removal of exactly one key.
C21_CountersMatchTable ==
    [][/\ added - closed = Cardinality(DOMAIN flows)
       /\ CountOf(events', "new_flow") - CountOf(events', "flow_closed")
            = Cardinality(DOMAIN flows')
       /\ SubSeq(events', 1, Len(events)) = events
       /\ Cardinality(LiveIds(flows')) = Cardinality(DOMAIN flows')
       /\ CalledFor("new_flow") = LiveIds(flows') \ LiveIds(flows)
       /\ CalledFor("flow_closed") = LiveIds(flows) \ LiveIds(flows')
       /\ CountOf(events', "new_flow") - added = Cardinality(CalledFor("new_flow"))
       /\ CountOf(events', "flow_closed") - closed = Cardinality(CalledFor("flow_closed"))]_vars

\* three flows were added and one of them closed; two are in the table
C21_Witness ==
    /\ added = 3
    /\ closed = 1
    /\ Cardinality(DOMAIN flows) = 2

====
